---- MODULE Spec2Model ----
(***************************************************************************)
(* A model of the news crawler of src/tasks.py (class NewsScraper) and of  *)
(* the two entry points, src/tasks.py main and src/main.py main.           *)
(*                                                                         *)
(* Python values are modelled as follows.                                  *)
(*   - a str is a sequence of one-character strings;                       *)
(*   - a parameter that may be None is a record [type, val];               *)
(*   - a datetime is a record [year, month, day, hour]; hour stands for    *)
(*     the whole time of day (0 is exactly midnight);                      *)
(*   - a date string is a sequence of tokens [k, s, v, w]: numbers with    *)
(*     their value and width, words, and the separators between them.      *)
(***************************************************************************)
EXTENDS Integers, Sequences, FiniteSets, TLC

(***************************************************************************)
(* Bounds of the model.                                                    *)
(***************************************************************************)
MaxPageNum == 3
MaxRows == 2
MaxFaults == 1
MaxMonths == 3

(***************************************************************************)
(* datetime                                                                *)
(***************************************************************************)
DateTime(y, m, d, h) == [year |-> y, month |-> m, day |-> d, hour |-> h]

\* No datetime: None, or the place of a datetime whose computation raised
NoDate == [year |-> 0, month |-> 0, day |-> 0, hour |-> 0]

IsLeap(y) == (y % 4 = 0 /\ y % 100 # 0) \/ y % 400 = 0

DaysInMonth(y, m) ==
    IF m = 2 THEN (IF IsLeap(y) THEN 29 ELSE 28)
    ELSE IF m \in {4, 6, 9, 11} THEN 30 ELSE 31

\* datetime.__lt__: lexicographic on (year, month, day, time of day)
DtLess(a, b) ==
    \/ a.year < b.year
    \/ a.year = b.year /\ a.month < b.month
    \/ a.year = b.year /\ a.month = b.month /\ a.day < b.day
    \/ a.year = b.year /\ a.month = b.month /\ a.day = b.day /\ a.hour < b.hour

\* dt - relativedelta(months=k): the month moves back k months, the year
\* follows, and the day is clipped to the length of the new month.
\* The result is NoDate when the year leaves 1..9999 (ValueError).
MinusMonths(dt, k) ==
    LET total == dt.year * 12 + (dt.month - 1) - k
        y == total \div 12
        m == (total % 12) + 1
    IN  IF y < 1 \/ y > 9999 THEN NoDate
        ELSE DateTime(y, m,
                      IF dt.day > DaysInMonth(y, m) THEN DaysInMonth(y, m) ELSE dt.day,
                      dt.hour)

\* dt.replace(day=1): every other field, the time of day included, is kept
ReplaceDay1(dt) == [dt EXCEPT !.day = 1]

(***************************************************************************)
(* Date strings and datetime.strptime                                      *)
(***************************************************************************)
Num(v, w) == [k |-> "num", s |-> "", v |-> v, w |-> w]
Word(s) == [k |-> "word", s |-> s, v |-> 0, w |-> 0]
Sep(s) == [k |-> "sep", s |-> s, v |-> 0, w |-> 0]

MonthAbbr == <<"Jan", "Feb", "Mar", "Apr", "May", "Jun",
               "Jul", "Aug", "Sep", "Oct", "Nov", "Dec">>
MonthFull == <<"January", "February", "March", "April", "May", "June",
               "July", "August", "September", "October", "November", "December">>

IndexOf(names, s) ==
    IF \E n \in 1..Len(names) : names[n] = s
    THEN CHOOSE n \in 1..Len(names) : names[n] = s
    ELSE 0

\* The date_formats list of should_process_article, in its order.  A format
\* is directive, separator, directive, separator, directive.
date_formats ==
    << <<"%b", " ", "%d", ", ", "%Y">>,
       <<"%b", ". ", "%d", ", ", "%Y">>,
       <<"%B", " ", "%d", ", ", "%Y">>,
       <<"%B", ". ", "%d", ", ", "%Y">>,
       <<"%d", " ", "%B", " ", "%Y">>,
       <<"%d", " ", "%b", " ", "%Y">>,
       <<"%d", " ", "%b", ". ", "%Y">>,
       <<"%Y", "-", "%m", "-", "%d">>,
       <<"%m", "/", "%d", "/", "%Y">>,
       <<"%d", "/", "%m", "/", "%Y">>,
       <<"%m", "-", "%d", "-", "%Y">>,
       <<"%d", "-", "%m", "-", "%Y">> >>

\* The value a directive reads from a token, 0 when the token does not
\* match the directive.
Directive(dir, tok) ==
    IF dir = "%b" THEN (IF tok.k = "word" THEN IndexOf(MonthAbbr, tok.s) ELSE 0)
    ELSE IF dir = "%B" THEN (IF tok.k = "word" THEN IndexOf(MonthFull, tok.s) ELSE 0)
    ELSE IF dir = "%d" THEN
        (IF tok.k = "num" /\ tok.w \in 1..2 /\ tok.v \in 1..31 THEN tok.v ELSE 0)
    ELSE IF dir = "%m" THEN
        (IF tok.k = "num" /\ tok.w \in 1..2 /\ tok.v \in 1..12 THEN tok.v ELSE 0)
    ELSE \* "%Y"
        (IF tok.k = "num" /\ tok.w = 4 /\ tok.v \in 1..9999 THEN tok.v ELSE 0)

FieldOf(fmt, date, dirs) ==
    LET hits == {p \in {1, 3, 5} : fmt[p] \in dirs}
    IN  Directive(fmt[CHOOSE p \in hits : TRUE], date[CHOOSE p \in hits : TRUE])

\* datetime.strptime(date, fmt): the parsed datetime (at midnight), or NoDate
\* when strptime raises ValueError
strptime(date, fmt) ==
    IF Len(date) # 5 THEN NoDate
    ELSE IF ~(date[2].k = "sep" /\ date[2].s = fmt[2]
              /\ date[4].k = "sep" /\ date[4].s = fmt[4]) THEN NoDate
    ELSE LET y == FieldOf(fmt, date, {"%Y"})
             m == FieldOf(fmt, date, {"%b", "%B", "%m"})
             d == FieldOf(fmt, date, {"%d"})
         IN  IF y = 0 \/ m = 0 \/ d = 0 THEN NoDate
             ELSE IF d > DaysInMonth(y, m) THEN NoDate
             ELSE DateTime(y, m, d, 0)

\* The loop over date_formats: the first format that parses wins;
\* NoDate stands for article_date = None.
RECURSIVE ParseFrom(_, _)
ParseFrom(date, n) ==
    IF n > Len(date_formats) THEN NoDate
    ELSE IF strptime(date, date_formats[n]) # NoDate THEN strptime(date, date_formats[n])
    ELSE ParseFrom(date, n + 1)

article_date(date) == ParseFrom(date, 1)

(***************************************************************************)
(* should_process_article                                                  *)
(***************************************************************************)
PyInt(n) == [type |-> "int", val |-> n]
NoneInt == [type |-> "none", val |-> 0]
PyStr(s) == [type |-> "str", val |-> s]
NoneStr == [type |-> "none", val |-> << >>]

\* cutoff_date, or NoDate when its computation raises (months is not a
\* number, or the year leaves the range of datetime)
cutoff_date(months, now) ==
    IF months.type # "int" THEN NoDate
    ELSE IF months.val > 0 THEN
        (IF MinusMonths(now, months.val - 1) = NoDate THEN NoDate
         ELSE ReplaceDay1(MinusMonths(now, months.val - 1)))
    ELSE ReplaceDay1(now)

\* should_process_article with an unparseable date taken for an old one
should_process_article_UnparsedBreaks(date, months, now) ==
    IF cutoff_date(months, now) = NoDate THEN "Continue"
    ELSE IF article_date(date) = NoDate THEN "Break"
    ELSE IF DtLess(article_date(date), cutoff_date(months, now)) THEN "Break"
    ELSE "Continue"

\* Every exception raised in the body (months > 0 on None, None < cutoff_date)
\* is caught by the outer handler, after which "Continue" is returned.
should_process_article(date, months, now) ==
    IF cutoff_date(months, now) = NoDate THEN "Continue"
    ELSE IF article_date(date) = NoDate THEN "Continue"
    ELSE IF DtLess(article_date(date), cutoff_date(months, now)) THEN "Break"
    ELSE "Continue"

(***************************************************************************)
(* str operations                                                          *)
(***************************************************************************)
UpperCase == <<"A", "B", "C", "D", "E", "F", "G", "H", "I", "J", "K", "L", "M",
               "N", "O", "P", "Q", "R", "S", "T", "U", "V", "W", "X", "Y", "Z">>
LowerCase == <<"a", "b", "c", "d", "e", "f", "g", "h", "i", "j", "k", "l", "m",
               "n", "o", "p", "q", "r", "s", "t", "u", "v", "w", "x", "y", "z">>
DigitChars == <<"0", "1", "2", "3", "4", "5", "6", "7", "8", "9">>

\* str.lower()
lower(s) ==
    [n \in 1..Len(s) |->
        IF IndexOf(UpperCase, s[n]) # 0 THEN LowerCase[IndexOf(UpperCase, s[n])] ELSE s[n]]

\* sub occurs in s at position p
OccursAt(s, sub, p) ==
    /\ p >= 1
    /\ p + Len(sub) - 1 <= Len(s)
    /\ SubSeq(s, p, p + Len(sub) - 1) = sub

\* sub in s
Contains(s, sub) == \E p \in 1..(Len(s) + 1) : OccursAt(s, sub, p)

\* str.count(sub): occurrences counted from the left, without overlap;
\* the empty string occurs len(s) + 1 times
RECURSIVE CountFrom(_, _, _)
CountFrom(s, sub, p) ==
    IF Len(sub) = 0 THEN Len(s) + 1
    ELSE IF p + Len(sub) - 1 > Len(s) THEN 0
    ELSE IF OccursAt(s, sub, p) THEN 1 + CountFrom(s, sub, p + Len(sub))
    ELSE CountFrom(s, sub, p + 1)

count(s, sub) == CountFrom(s, sub, 1)

\* s.split(c)[0]: the part before the first c, all of s when c is not in it
SplitFirst(s, c) ==
    IF \E p \in 1..Len(s) : s[p] = c
    THEN SubSeq(s, 1, (CHOOSE p \in 1..Len(s) :
                         s[p] = c /\ \A q \in 1..(p - 1) : s[q] # c) - 1)
    ELSE s

\* s.split(c)[-1]: the part after the last c, all of s when c is not in it
SplitLast(s, c) ==
    IF \E p \in 1..Len(s) : s[p] = c
    THEN SubSeq(s, (CHOOSE p \in 1..Len(s) :
                      s[p] = c /\ \A q \in (p + 1)..Len(s) : s[q] # c) + 1, Len(s))
    ELSE s

\* s.replace(c, '')
RECURSIVE Remove(_, _)
Remove(s, c) ==
    IF Len(s) = 0 THEN << >>
    ELSE IF Head(s) = c THEN Remove(Tail(s), c)
    ELSE <<Head(s)>> \o Remove(Tail(s), c)

IsDigit(c) == IndexOf(DigitChars, c) # 0

\* int(s) for a string of decimal digits; -1 stands for ValueError
RECURSIVE IntOf(_)
IntOf(s) ==
    IF Len(s) = 0 \/ \E p \in 1..Len(s) : ~IsDigit(s[p]) THEN -1
    ELSE IF Len(s) = 1 THEN IndexOf(DigitChars, s[1]) - 1
    ELSE 10 * IntOf(SubSeq(s, 1, Len(s) - 1)) + (IndexOf(DigitChars, s[Len(s)]) - 1)

(***************************************************************************)
(* search_phrase_count and contains_money                                  *)
(***************************************************************************)
\* A count that compares the texts as they are written
search_phrase_count_CaseSensitive(title, description, phrase) ==
    IF phrase.type # "str" THEN -1
    ELSE count(title, phrase.val) + count(description, phrase.val)

\* phrase is a PyStr; with phrase = None, phrase.lower() raises (-1)
search_phrase_count(title, description, phrase) ==
    IF phrase.type # "str" THEN -1
    ELSE count(lower(title), lower(phrase.val)) + count(lower(description), lower(phrase.val))

\* \d+\s+word: a digit, then one or more blanks, then the word
DigitsBlanksThen(text, word) ==
    \E p \in 1..Len(text) : \E q \in (p + 1)..Len(text) :
        /\ IsDigit(text[p])
        /\ \A r \in (p + 1)..q : text[r] = " "
        /\ OccursAt(text, word, q + 1)

contains_money(text) ==
    \/ \E p \in 1..(Len(text) - 1) : text[p] = "$" /\ IsDigit(text[p + 1])
    \/ DigitsBlanksThen(text, <<"d", "o", "l", "l", "a", "r", "s">>)
    \/ DigitsBlanksThen(text, <<"U", "S", "D">>)

(***************************************************************************)
(* The image of a row: lines 229-240 of extract_page_data                  *)
(***************************************************************************)
output_img_path == <<".", "/", "o", "u", "t", "p", "u", "t", "/">>
NoImage == <<"N", "o", " ", "i", "m", "a", "g", "e">>
DotJpg == <<".", "j", "p", "g">>

\* str(attribute): the attribute value, "None" when the attribute is absent
StrOf(attr) == IF attr.type = "str" THEN attr.val ELSE <<"N", "o", "n", "e">>

image_url(attr) == SplitFirst(SplitFirst(StrOf(attr), ","), " ")

img_name(url) ==
    IF Contains(SplitLast(url, "%"), DotJpg) THEN SplitLast(url, "%")
    ELSE SplitLast(url, "%") \o DotJpg

image_filename_of(attr) == output_img_path \o img_name(image_url(attr))

(***************************************************************************)
(* Inputs of a run: the work item, the local input file of src/main.py,    *)
(* the clock, and what the site shows.                                     *)
(***************************************************************************)
Nasdaq == <<"N", "a", "s", "d", "a", "q">>
Business == <<"B", "u", "s", "i", "n", "e", "s", "s">>

Keys == {"search_phrase", "months", "news_category"}

\* A work item: get_input_work_item raises (loads = FALSE), or its payload.
\* A payload is a record; a key is present when it is in its domain.
WorkItemInputs ==
    { [loads |-> FALSE, payload |-> [none |-> 0]],
      \* Control room shape: the parameters are under payload['payload']
      [loads |-> TRUE,
       payload |-> [payload |-> [search_phrase |-> PyStr(Nasdaq), months |-> PyInt(1),
                                 news_category |-> PyStr(Business)]]],
      \* local shape
      [loads |-> TRUE,
       payload |-> [search_phrase |-> PyStr(Nasdaq), months |-> PyInt(1),
                    news_category |-> PyStr(Business)]],
      \* no search phrase
      [loads |-> TRUE,
       payload |-> [months |-> PyInt(2), news_category |-> PyStr(Business)]] }

\* Resources/input_work_item.json: unreadable, or its content
InputFiles ==
    { [readable |-> FALSE, data |-> [none |-> 0]],
      [readable |-> TRUE, data |-> [none |-> 0]],
      [readable |-> TRUE,
       data |-> [payload |-> [search_phrase |-> PyStr(Nasdaq), months |-> PyInt(2)]]],
      [readable |-> TRUE,
       data |-> [payload |-> [months |-> PyInt(0), news_category |-> PyStr(Business)]]] }

\* The instants the clock shows during a run; the clock only moves forward.
ClockStart == DateTime(2024, 1, 31, 12)
ClockEnd == DateTime(2024, 2, 1, 0)

\* The date strings the site shows: "Jan 31, 2024", "Oct 5, 2023", "2 hours ago"
CrawlDates ==
    { <<Word("Jan"), Sep(" "), Num(31, 2), Sep(", "), Num(2024, 4)>>,
      <<Word("Oct"), Sep(" "), Num(5, 1), Sep(", "), Num(2023, 4)>>,
      <<Num(2, 1), Sep(" "), Word("hours"), Sep(" "), Word("ago")>> }

Titles == { <<"N", "a", "s", "d", "a", "q">> }
Descriptions == { <<"$", "5", " ", "n", "a", "s", "d", "a", "q">> }

\* srcset values: "u%2Fp 1x,v 2x"
Srcsets == { PyStr(<<"u", "%", "2", "F", "p", " ", "1", "x", ",", "v", " ", "2", "x">>) }

\* The text of the page-count element for n pages: "1 of n"
RECURSIVE DigitsOf(_)
DigitsOf(n) ==
    IF n < 10 THEN <<DigitChars[n + 1]>>
    ELSE DigitsOf(n \div 10) \o <<DigitChars[(n % 10) + 1]>>

PageCountTexts ==
    { <<"1", " ", "o", "f", " ">> \o DigitsOf(n) : n \in 0..MaxPageNum }
    \cup { <<"N", "o", " ", "r", "e", "s", "u", "l", "t", "s">> }

(***************************************************************************)
(* State                                                                   *)
(***************************************************************************)
VARIABLES
    loaded,          \* where the parameters came from: "unset", the "work_item",
                     \* the "default" of src/tasks.py, the "file" of src/main.py
    now,             \* datetime.now()
    pc,              \* the statement main is at
    raised,          \* the exception that ended main, "none" if none
    search_phrase, news_category, months,   \* the parameters of the run
    browser,         \* the browser session
    page_num,        \* extract_news_data: the page count, -1 while unbound
    i,               \* extract_news_data: the loop variable
    news_data,       \* extract_news_data: the result list
    status, result,  \* extract_news_data: what run_keyword_and_return_status returned
    articles,        \* extract_page_data: the number of row handles
    index,           \* extract_page_data: rows of the page already left behind
    title, date, description, image_filename,   \* extract_page_data: the row's fields
    srcset,          \* extract_page_data: the srcset attribute read for the row
    img,             \* how the image of the row went: "none", "noelement", "ok", "failed"
    excel,           \* the workbook
    listed,          \* the number of row handles of each page listed, in order
    classified,      \* the rows should_process_article was called for, in order
    cutoffs,         \* the cutoff dates those calls computed
    faults,          \* calls of the browser or the workbook that raised so far
    soft             \* unusable answers so far: text that is no date, an absent
                     \* srcset attribute, a download that failed

vars == <<loaded, now, pc, raised, search_phrase, news_category,
          months, browser, page_num, i, news_data, status, result, articles, index,
          title, date, description, image_filename, srcset, img, excel, listed,
          classified, cutoffs, faults, soft>>

params == <<search_phrase, news_category, months>>
locals == <<title, date, description, image_filename, srcset, img>>
budget == <<faults, soft>>
logs == <<listed, classified, cutoffs>>
loop == <<page_num, i, status, result, articles, index>>

Unbound == -1
NoWorkbook == [created |-> FALSE, header |-> << >>, rows |-> << >>, saved |-> FALSE]

Init ==
    /\ loaded = "unset"
    /\ now = ClockStart
    /\ pc = "start"
    /\ raised = "none"
    /\ search_phrase = NoneStr
    /\ news_category = NoneStr
    /\ months = NoneInt
    /\ browser = [open |-> FALSE, page |-> 0, filtered |-> FALSE]
    /\ page_num = Unbound
    /\ i = 0
    /\ news_data = << >>
    /\ status = FALSE
    /\ result = "unset"
    /\ articles = 0
    /\ index = 0
    /\ title = << >>
    /\ date = << >>
    /\ description = << >>
    /\ image_filename = << >>
    /\ srcset = NoneStr
    /\ img = "none"
    /\ excel = NoWorkbook
    /\ listed = << >>
    /\ classified = << >>
    /\ cutoffs = {}
    /\ faults = 0
    /\ soft = 0

\* A call may fail, or give an unusable answer, while the budget of failures
\* lasts.
MayFail == faults + soft < MaxFaults

Fails == MayFail /\ faults' = faults + 1 /\ UNCHANGED soft
Unusable == MayFail /\ soft' = soft + 1 /\ UNCHANGED faults

\* A call that raises where no handler is around it: the exception ends the
\* run, so such a failure may come at any time.
Throws == faults' = faults + 1 /\ UNCHANGED soft

\* An exception leaves main: the process ends.
Escapes(exc) ==
    /\ pc' = "raised"
    /\ raised' = exc

(***************************************************************************)
(* main, up to the search                                                  *)
(***************************************************************************)
HasKeys(d) == Keys \subseteq DOMAIN d

NoParams == [raises |-> TRUE, phrase |-> NoneStr, category |-> NoneStr, months |-> NoneInt]

\* load_work_item: the three parameters, or "raises" when an exception
\* leaves it (get_input_work_item raised, or a key is in neither place)
load_work_item(item) ==
    IF ~item.loads THEN NoParams
    ELSE IF "payload" \in DOMAIN item.payload /\ HasKeys(item.payload.payload)
    THEN [raises |-> FALSE, phrase |-> item.payload.payload.search_phrase,
          category |-> item.payload.payload.news_category,
          months |-> item.payload.payload.months]
    ELSE IF HasKeys(item.payload)
    THEN [raises |-> FALSE, phrase |-> item.payload.search_phrase,
          category |-> item.payload.news_category, months |-> item.payload.months]
    ELSE NoParams

\* dict.get(key): None when the key is absent
GetStr(d, key) == IF key \in DOMAIN d THEN d[key] ELSE NoneStr
GetInt(d, key) == IF key \in DOMAIN d THEN d[key] ELSE NoneInt

\* read_json_file and the three dict.get of src/main.py
read_json_file(input_file) ==
    IF ~input_file.readable \/ "payload" \notin DOMAIN input_file.data
    THEN NoParams
    ELSE [raises |-> FALSE,
          phrase |-> GetStr(input_file.data.payload, "search_phrase"),
          category |-> GetStr(input_file.data.payload, "news_category"),
          months |-> GetInt(input_file.data.payload, "months")]

\* A handler of main that lets the failure of the work item end the run
Fallback_Fatal(entry, input_file) ==
    IF entry = "tasks" THEN NoParams ELSE read_json_file(input_file)

\* The handler of main for a work item that did not load.
\* src/tasks.py: the default parameters.  src/main.py: the local input file.
Fallback(entry, input_file) ==
    IF entry = "tasks"
    THEN [raises |-> FALSE, phrase |-> PyStr(Nasdaq), category |-> PyStr(Business),
          months |-> PyInt(3)]
    ELSE read_json_file(input_file)

ConfigErrors == {"FileNotFoundError", "AttributeError"}

\* Lines 21-24 of src/tasks.py, 14-20 of src/main.py
LoadWorkItem ==
    /\ pc = "start"
    /\ \E entry \in {"tasks", "main"}, work_item \in WorkItemInputs,
          input_file \in InputFiles :
          LET got == load_work_item(work_item)
              use == IF got.raises THEN Fallback(entry, input_file) ELSE got
          IN  /\ loaded' = IF ~got.raises THEN "work_item"
                            ELSE IF entry = "tasks" THEN "default" ELSE "file"
              /\ IF use.raises
                 THEN /\ Escapes(IF input_file.readable THEN "AttributeError"
                                                         ELSE "FileNotFoundError")
                      /\ UNCHANGED params
                 ELSE /\ search_phrase' = use.phrase
                      /\ news_category' = use.category
                      /\ months' = use.months
                      /\ pc' = "loaded"
                      /\ UNCHANGED raised
    /\ UNCHANGED <<now, browser, loop, news_data, locals, excel, logs, budget>>

\* open_browser_and_search_news: the site is opened, then the phrase is typed
\* into the search form and submitted.  Typing None raises TypeError.
OpenBrowserAndSearch ==
    /\ pc = "loaded"
    /\ \/ /\ Throws
          /\ \E opened \in BOOLEAN : browser' = [browser EXCEPT !.open = opened]
          /\ Escapes("search")
       \/ /\ search_phrase.type # "str"
          /\ browser' = [browser EXCEPT !.open = TRUE]
          /\ Escapes("TypeError")
          /\ UNCHANGED budget
       \/ /\ search_phrase.type = "str"
          /\ browser' = [browser EXCEPT !.open = TRUE, !.page = 1]
          /\ pc' = "searched"
          /\ UNCHANGED <<raised, budget>>
    /\ UNCHANGED <<loaded, now, params, loop, news_data, locals, excel, logs>>

(***************************************************************************)
(* extract_news_data                                                       *)
(***************************************************************************)
\* Lines 302-305: the first result is awaited and the newest-first order is
\* selected; neither call is inside a try.
StartExtract ==
    /\ pc = "searched"
    /\ \/ /\ Throws
          /\ Escapes("setup")
       \/ /\ pc' = "filter"
          /\ UNCHANGED <<raised, budget>>
    /\ UNCHANGED <<loaded, now, params, browser, loop, news_data, locals, excel,
                   logs>>

\* A filter step whose failure leaves extract_news_data
SelectNewsCategory_Unguarded ==
    /\ pc = "filter"
    /\ \/ /\ news_category.type = "str"
          /\ Fails
          /\ Escapes("filter")
          /\ UNCHANGED browser
       \/ /\ browser' = [browser EXCEPT !.filtered = (news_category.type = "str")]
          /\ pc' = "count"
          /\ UNCHANGED <<raised, budget>>
    /\ news_data' = << >>
    /\ UNCHANGED <<loaded, now, params, loop, locals, excel, logs>>

\* Lines 306-308: select_news_category, run under
\* run_keyword_and_return_status, then the empty result list.
\* select_news_category does nothing for a category of None; otherwise it
\* opens the filter panel and clicks the category.  The click of the category
\* is inside a try whose handler logs; a failure to open the panel leaves
\* select_news_category and is caught by run_keyword_and_return_status.
\* Either way the filter is not applied and extract_news_data goes on.
SelectNewsCategory ==
    /\ pc = "filter"
    /\ \/ /\ news_category.type = "str"
          /\ Fails
          /\ pc' = "count"
          /\ UNCHANGED <<raised, browser>>
       \/ /\ browser' = [browser EXCEPT !.filtered = (news_category.type = "str")]
          /\ pc' = "count"
          /\ UNCHANGED <<raised, budget>>
    /\ news_data' = << >>
    /\ UNCHANGED <<loaded, now, params, loop, locals, excel, logs>>

\* int(str(text.split(' ')[-1]).replace(',', '')), -1 for ValueError
page_count(text) == IntOf(Remove(SplitLast(text, " "), ","))

\* Lines 309-318: the page count is read inside try/except; when the read
\* fails the handler only logs, and page_num stays unbound.
ReadPageCount ==
    /\ pc = "count"
    /\ \/ /\ Fails
          /\ page_num' = Unbound
       \/ /\ \E text \in PageCountTexts :
                page_num' = IF page_count(text) < 0 THEN Unbound ELSE page_count(text)
          /\ UNCHANGED budget
    /\ i' = 1
    /\ pc' = "loop"
    /\ UNCHANGED <<loaded, now, raised, params, browser, news_data, status, result,
                   articles, index, locals, excel, logs>>

\* A loop over range(1, page_num + 1)
LoopHead_Inclusive ==
    /\ pc = "loop"
    /\ IF page_num = Unbound
       THEN /\ Escapes("UnboundLocalError")
            /\ UNCHANGED <<articles, index, locals, budget, status, result, listed>>
       ELSE IF i <= page_num
       THEN \/ /\ Throws
               /\ Escapes("paging")
               /\ UNCHANGED <<articles, index, locals, status, result, listed>>
            \/ /\ articles' \in 1..MaxRows
               /\ listed' = Append(listed, articles')
               /\ index' = 0
               /\ title' = << >>
               /\ date' = << >>
               /\ description' = << >>
               /\ image_filename' = << >>
               /\ srcset' = NoneStr
               /\ img' = "none"
               /\ status' = FALSE
               /\ result' = "unset"
               /\ pc' = "row"
               /\ UNCHANGED <<raised, budget>>
       ELSE /\ pc' = "returned"
            /\ UNCHANGED <<raised, articles, index, locals, budget, status, result,
                           listed>>
    /\ UNCHANGED <<loaded, now, params, browser, page_num, i, news_data, excel,
                   classified, cutoffs>>

\* Lines 320-326: range(1, page_num) is evaluated (UnboundLocalError when
\* page_num was never bound); for the next i the first row of the result list
\* is awaited (so a page that is listed has a row) and the row handles are
\* listed, then extract_page_data starts on them.
LoopHead ==
    /\ pc = "loop"
    /\ IF page_num = Unbound
       THEN /\ Escapes("UnboundLocalError")
            /\ UNCHANGED <<articles, index, locals, budget, status, result, listed>>
       ELSE IF i < page_num
       THEN \/ /\ Throws
               /\ Escapes("paging")
               /\ UNCHANGED <<articles, index, locals, status, result, listed>>
            \/ /\ articles' \in 1..MaxRows
               /\ listed' = Append(listed, articles')
               /\ index' = 0
               /\ title' = << >>
               /\ date' = << >>
               /\ description' = << >>
               /\ image_filename' = << >>
               /\ srcset' = NoneStr
               /\ img' = "none"
               /\ status' = FALSE
               /\ result' = "unset"
               /\ pc' = "row"
               /\ UNCHANGED <<raised, budget>>
       ELSE /\ pc' = "returned"
            /\ UNCHANGED <<raised, articles, index, locals, budget, status, result,
                           listed>>
    /\ UNCHANGED <<loaded, now, params, browser, page_num, i, news_data, excel,
                   classified, cutoffs>>

(***************************************************************************)
(* extract_page_data, run under run_keyword_and_return_status              *)
(***************************************************************************)
\* An exception leaves extract_page_data: run_keyword_and_return_status
\* catches it and returns (False, None).
PageFails ==
    /\ status' = FALSE
    /\ result' = "None"
    /\ pc' = "after_page"

\* Lines 211-220: the next row, if any; its heading is awaited and read,
\* then its date.  With no row left the function returns None.
ReadTitleAndDate ==
    /\ pc = "row"
    /\ IF index = articles
       THEN /\ status' = TRUE
            /\ result' = "None"
            /\ pc' = "after_page"
            /\ UNCHANGED <<title, date, srcset, img, budget>>
       ELSE \/ /\ Fails
               /\ PageFails
               /\ UNCHANGED <<title, date, srcset, img>>
            \/ /\ title' \in Titles
               /\ date' \in CrawlDates
               /\ IF article_date(date') = NoDate THEN Unusable ELSE UNCHANGED budget
               /\ srcset' = NoneStr
               /\ img' = "none"
               /\ pc' = "check"
               /\ UNCHANGED <<status, result>>
    /\ UNCHANGED <<loaded, now, raised, params, browser, page_num, i, news_data,
                   articles, index, description, image_filename, excel, logs>>

\* A date check whose "Break" does not end the row
CheckDate_NoReturn ==
    /\ pc = "check"
    /\ classified' = Append(classified,
            [page |-> browser.page, row |-> index + 1,
             title |-> title, date |-> date,
             verdict |-> should_process_article(date, months, now)])
    /\ cutoffs' = cutoffs \cup {cutoff_date(months, now)}
    /\ IF should_process_article(date, months, now) = "Break"
       THEN /\ result' = "Break"
            /\ pc' = "description"
            /\ UNCHANGED status
       ELSE /\ pc' = "description"
            /\ UNCHANGED <<status, result>>
    /\ UNCHANGED <<loaded, now, raised, params, browser, page_num, i, news_data,
                   articles, index, locals, excel, listed, budget>>

\* Lines 222-224: the date check, which reads the clock
CheckDate ==
    /\ pc = "check"
    /\ classified' = Append(classified,
            [page |-> browser.page, row |-> index + 1,
             title |-> title, date |-> date,
             verdict |-> should_process_article(date, months, now)])
    /\ cutoffs' = cutoffs \cup {cutoff_date(months, now)}
    /\ IF should_process_article(date, months, now) = "Break"
       THEN /\ status' = TRUE
            /\ result' = "Break"
            /\ pc' = "after_page"
       ELSE /\ pc' = "description"
            /\ UNCHANGED <<status, result>>
    /\ UNCHANGED <<loaded, now, raised, params, browser, page_num, i, news_data,
                   articles, index, locals, excel, listed, budget>>

\* Lines 226-227
ReadDescription ==
    /\ pc = "description"
    /\ \/ /\ Fails
          /\ PageFails
          /\ UNCHANGED description
       \/ /\ description' \in Descriptions
          /\ pc' = "image"
          /\ UNCHANGED <<status, result, budget>>
    /\ UNCHANGED <<loaded, now, raised, params, browser, page_num, i, news_data,
                   articles, index, title, date, image_filename, srcset, img,
                   excel, logs>>

\* urlretrieve cannot open an empty url, nor "None"
Retrievable(url) == url # << >> /\ url # <<"N", "o", "n", "e">>

news_entry(image) ==
    [title |-> title, date |-> date, description |-> description,
     image_filename |-> image,
     search_count |-> search_phrase_count(title, description, search_phrase),
     contains_money_flag |-> contains_money(description)]

\* An append at the front of the list
AppendEntry_AtFront(image) ==
    IF search_phrase.type # "str"
    THEN /\ PageFails
         /\ UNCHANGED <<news_data, index>>
    ELSE /\ news_data' = <<news_entry(image)>> \o news_data
         /\ index' = index + 1
         /\ pc' = "row"
         /\ UNCHANGED <<status, result>>

\* Lines 245-250: the text is analysed and the entry appended.
\* search_phrase_count raises when the phrase is None.
AppendEntry(image) ==
    IF search_phrase.type # "str"
    THEN /\ PageFails
         /\ UNCHANGED <<news_data, index>>
    ELSE /\ news_data' = Append(news_data, news_entry(image))
         /\ index' = index + 1
         /\ pc' = "row"
         /\ UNCHANGED <<status, result>>

\* Lines 229-250: the srcset attribute is read (the element may be missing,
\* the attribute may be absent), the url and the file name are derived and
\* download_image is called.  urlretrieve succeeds or raises; the handler of
\* download_image logs the failure and the function returns either way, so
\* extract_page_data goes on with the file name it derived.  Then the entry
\* is appended.
ReadImageAndAppendFrom(shown) ==
    /\ pc = "image"
    /\ \/ /\ Fails
          /\ srcset' = NoneStr
          /\ image_filename' = NoImage
          /\ img' = "noelement"
       \/ /\ Unusable
          /\ srcset' \in shown \cup {NoneStr}
          /\ image_filename' = image_filename_of(srcset')
          /\ img' = "failed"
       \/ /\ srcset' \in shown
          /\ Retrievable(image_url(srcset'))
          /\ image_filename' = image_filename_of(srcset')
          /\ img' = "ok"
          /\ UNCHANGED budget
    /\ AppendEntry(image_filename')
    /\ UNCHANGED <<loaded, now, raised, params, browser, page_num, i, articles,
                   title, date, description, excel, logs>>

ReadImageAndAppend == ReadImageAndAppendFrom(Srcsets)

\* The loop without its break: the next page is followed whatever the result
AfterPage_NoBreak ==
    /\ pc = "after_page"
    /\ \/ /\ Throws
          /\ Escapes("paging")
          /\ UNCHANGED <<browser, i>>
       \/ /\ browser' = [browser EXCEPT !.page = @ + 1]
          /\ i' = i + 1
          /\ pc' = "loop"
          /\ UNCHANGED <<raised, budget>>
    /\ UNCHANGED <<loaded, now, params, page_num, news_data, status, result,
                   articles, index, locals, excel, logs>>

\* Lines 327-332: break on "Break"; otherwise the link of the next page is
\* read and followed.
AfterPage ==
    /\ pc = "after_page"
    /\ IF result = "Break"
       THEN /\ pc' = "returned"
            /\ UNCHANGED <<raised, browser, i, budget>>
       ELSE \/ /\ Throws
               /\ Escapes("paging")
               /\ UNCHANGED <<browser, i>>
            \/ /\ browser' = [browser EXCEPT !.page = @ + 1]
               /\ i' = i + 1
               /\ pc' = "loop"
               /\ UNCHANGED <<raised, budget>>
    /\ UNCHANGED <<loaded, now, params, page_num, news_data, status, result,
                   articles, index, locals, excel, logs>>

(***************************************************************************)
(* main, after extract_news_data                                           *)
(***************************************************************************)
header == <<"Title", "Date", "Description", "Image filename", "Search count",
            "Contains money flag">>

\* save_news_data_to_excel: the header, then one row per entry, then save
SaveNewsDataToExcel ==
    /\ pc = "returned"
    /\ \/ /\ Throws
          /\ Escapes("excel")
          /\ UNCHANGED excel
       \/ /\ excel' = [created |-> TRUE, header |-> header, rows |-> news_data,
                       saved |-> TRUE]
          /\ pc' = "saved"
          /\ UNCHANGED <<raised, budget>>
    /\ UNCHANGED <<loaded, now, params, browser, loop, news_data, locals, logs>>

CloseBrowser ==
    /\ pc = "saved"
    /\ browser' = [browser EXCEPT !.open = FALSE]
    /\ pc' = "done"
    /\ UNCHANGED <<loaded, now, raised, params, loop, news_data, locals, excel,
                   logs, budget>>

\* Time passes while the crawl runs (every row sleeps two seconds).  The
\* clock is read by should_process_article only, so the time that passed
\* shows when the date check is about to run.
NextInstant(dt) ==
    IF dt.hour < 12 THEN [dt EXCEPT !.hour = 12]
    ELSE IF dt.day < DaysInMonth(dt.year, dt.month)
    THEN DateTime(dt.year, dt.month, dt.day + 1, 0)
    ELSE IF dt.month < 12 THEN DateTime(dt.year, dt.month + 1, 1, 0)
    ELSE DateTime(dt.year + 1, 1, 1, 0)

Tick ==
    /\ pc = "check"
    /\ DtLess(now, ClockEnd)
    /\ now' = NextInstant(now)
    /\ UNCHANGED <<loaded, pc, raised, params, browser, loop, news_data, locals,
                   excel, logs, budget>>

Next ==
    \/ LoadWorkItem
    \/ OpenBrowserAndSearch
    \/ StartExtract
    \/ SelectNewsCategory
    \/ ReadPageCount
    \/ LoopHead
    \/ ReadTitleAndDate
    \/ CheckDate
    \/ ReadDescription
    \/ ReadImageAndAppend
    \/ AfterPage
    \/ SaveNewsDataToExcel
    \/ CloseBrowser
    \/ Tick

Spec == Init /\ [][Next]_vars

(***************************************************************************)
(* should_process_article on its own: one row whose date is about to be    *)
(* checked, for more date strings, window lengths and instants than the    *)
(* crawl above meets, followed to the end of the row.                      *)
(***************************************************************************)
D3(a, s1, b, s2, c) == <<a, Sep(s1), b, Sep(s2), c>>

DateStrings ==
    { D3(Word("Jan"), " ", Num(15, 2), ", ", Num(2024, 4)),       \* Jan 15, 2024
      D3(Word("Feb"), " ", Num(15, 2), ", ", Num(2024, 4)),       \* Feb 15, 2024
      D3(Word("Feb"), " ", Num(1, 1), ", ", Num(2024, 4)),        \* Feb 1, 2024
      D3(Word("Jan"), ". ", Num(31, 2), ", ", Num(2024, 4)),      \* Jan. 31, 2024
      D3(Word("February"), " ", Num(1, 2), ", ", Num(2024, 4)),   \* February 01, 2024
      D3(Word("December"), ". ", Num(1, 1), ", ", Num(2023, 4)),  \* December. 1, 2023
      D3(Num(1, 1), " ", Word("January"), " ", Num(2024, 4)),     \* 1 January 2024
      D3(Num(30, 2), " ", Word("Nov"), " ", Num(2023, 4)),        \* 30 Nov 2023
      D3(Num(1, 1), " ", Word("Nov"), ". ", Num(2023, 4)),        \* 1 Nov. 2023
      D3(Num(2024, 4), "-", Num(2, 2), "-", Num(1, 2)),           \* 2024-02-01
      D3(Num(2, 2), "/", Num(1, 2), "/", Num(2024, 4)),           \* 02/01/2024
      D3(Num(31, 2), "/", Num(1, 2), "/", Num(2024, 4)),          \* 31/01/2024
      D3(Num(1, 2), "-", Num(2, 2), "-", Num(2024, 4)),           \* 01-02-2024
      D3(Num(15, 2), "-", Num(12, 2), "-", Num(2023, 4)),         \* 15-12-2023
      D3(Word("Feb"), " ", Num(30, 2), ", ", Num(2024, 4)),       \* Feb 30, 2024
      D3(Num(2, 1), " ", Word("hours"), " ", Word("ago")),        \* 2 hours ago
      <<Word("Yesterday")>>,
      << >> }

MonthsValues == {NoneInt} \cup {PyInt(n) : n \in 0..MaxMonths}

NowValues ==
    { DateTime(2024, 2, 15, 10), DateTime(2024, 2, 1, 0), DateTime(2024, 1, 31, 12),
      DateTime(2024, 3, 31, 23) }

InitDate ==
    /\ loaded = "work_item"
    /\ now \in NowValues
    /\ pc = "check"
    /\ raised = "none"
    /\ search_phrase = PyStr(Nasdaq)
    /\ news_category = NoneStr
    /\ months \in MonthsValues
    /\ browser = [open |-> TRUE, page |-> 1, filtered |-> FALSE]
    /\ page_num = 2
    /\ i = 1
    /\ news_data = << >>
    /\ status = FALSE
    /\ result = "unset"
    /\ articles = 1
    /\ index = 0
    /\ title \in Titles
    /\ date \in DateStrings
    /\ description = << >>
    /\ image_filename = << >>
    /\ srcset = NoneStr
    /\ img = "none"
    /\ excel = NoWorkbook
    /\ listed = <<1>>
    /\ classified = << >>
    /\ cutoffs = {}
    /\ faults = 0
    /\ soft = 0

NextDate ==
    \/ CheckDate
    \/ ReadDescription
    \/ ReadImageAndAppend

SpecDate == InitDate /\ [][NextDate]_vars

(***************************************************************************)
(* The end of one row on its own: a row in the window whose description    *)
(* was read, for more titles, descriptions, phrases and srcset values      *)
(* than the crawl above meets.                                             *)
(***************************************************************************)
NasdaqRises == <<"N", "a", "s", "d", "a", "q", " ", "r", "i", "s", "e", "s">>
StocksOnNasdaqGain == <<"S", "t", "o", "c", "k", "s", " ", "o", "n", " ", "N", "a", "s", "d", "a", "q", " ", "g", "a", "i", "n">>

RowTitles ==
    { NasdaqRises,
      <<"N", "A", "S", "D", "A", "Q", " ", "n", "a", "s", "d", "a", "q">>,
      <<"a", "A", "a">>,
      <<"a", "b">>,
      << >> }

RowDescriptions ==
    { StocksOnNasdaqGain,
      <<"$", "5", " ", "a", "a", "a", "a">>,
      <<"b", "a">>,
      <<"b">>,
      << >> }

RowPhrases ==
    { PyStr(<<"n", "a", "s", "d", "a", "q">>),
      PyStr(<<"N", "A", "S", "D", "A", "Q">>),
      PyStr(<<"a", "a">>),
      PyStr(<<"A">>),
      PyStr(<<"b", "b">>),
      PyStr(<< >>) }

\* srcset values: "u%2Fp 1x,v 2x", "u%2Fa.jpg 1x", "a.jpg?w 1x",
\* "a.jpg.webp", " u 1x,v 2x", "u<tab>1x", ""
RowSrcsets ==
    { PyStr(<<"u", "%", "2", "F", "p", " ", "1", "x", ",", "v", " ", "2", "x">>),
      PyStr(<<"u", "%", "2", "F", "a", ".", "j", "p", "g", " ", "1", "x">>),
      PyStr(<<"a", ".", "j", "p", "g", "?", "w", " ", "1", "x">>),
      PyStr(<<"a", ".", "j", "p", "g", ".", "w", "e", "b", "p">>),
      PyStr(<<" ", "u", " ", "1", "x", ",", "v", " ", "2", "x">>),
      PyStr(<<"u", "\t", "1", "x">>),
      PyStr(<< >>) }

InWindow == <<Word("Jan"), Sep(" "), Num(31, 2), Sep(", "), Num(2024, 4)>>

\* The empty phrase is tried on short texts only.
ShortText == 4

InitRow ==
    /\ loaded = "work_item"
    /\ now = ClockStart
    /\ pc = "image"
    /\ raised = "none"
    /\ search_phrase \in RowPhrases
    /\ news_category = NoneStr
    /\ months = PyInt(1)
    /\ browser = [open |-> TRUE, page |-> 1, filtered |-> FALSE]
    /\ page_num = 2
    /\ i = 1
    /\ news_data = << >>
    /\ status = FALSE
    /\ result = "unset"
    /\ articles = 1
    /\ index = 0
    /\ title \in RowTitles
    /\ date = InWindow
    /\ description \in RowDescriptions
    /\ Len(search_phrase.val) = 0 => Len(title) + Len(description) <= ShortText
    /\ image_filename = << >>
    /\ srcset = NoneStr
    /\ img = "none"
    /\ excel = NoWorkbook
    /\ listed = <<1>>
    /\ classified = <<[page |-> 1, row |-> 1, title |-> title, date |-> date,
                       verdict |-> should_process_article(date, months, now)]>>
    /\ cutoffs = {cutoff_date(months, now)}
    /\ faults = 0
    /\ soft = 0

NextRow == ReadImageAndAppendFrom(RowSrcsets)

SpecRow == InitRow /\ [][NextRow]_vars

(***************************************************************************)
(* Properties                                                              *)
(***************************************************************************)
Last(seq) == seq[Len(seq)]

\* The rows classified so far are the rows of the pages listed so far, in
\* the order the site presents them, up to the latest one: the first is row 1
\* of the first page that has rows, each next one is the next row of the same
\* page or row 1 of the next page that has rows, after the last row of its
\* page.
InPresentationOrder ==
    /\ Len(classified) > 0 =>
          /\ classified[1].row = 1
          /\ \A q \in 1..(classified[1].page - 1) : listed[q] = 0
    /\ \A m \in 1..(Len(classified) - 1) :
          \/ /\ classified[m + 1].page = classified[m].page
             /\ classified[m + 1].row = classified[m].row + 1
          \/ /\ classified[m + 1].page > classified[m].page
             /\ classified[m].row = listed[classified[m].page]
             /\ classified[m + 1].row = 1
             /\ \A q \in (classified[m].page + 1)..(classified[m + 1].page - 1) :
                   listed[q] = 0

\* C1: when no call of the backend raised and a row's date was classified
\* out of window, that row is the first such row in presentation order; the
\* result holds one record for each row before it (all rows of the earlier
\* pages, then the earlier rows of its page), in that order; and the crawl
\* is still on the page of that row, having read no row and listed no page
\* after it.
C1_StopsAtFirstOutOfWindowRow ==
    (result = "Break" /\ faults = 0) =>
        /\ Len(classified) > 0
        /\ Last(classified).verdict = "Break"
        /\ \A m \in 1..(Len(classified) - 1) : classified[m].verdict = "Continue"
        /\ InPresentationOrder
        /\ Len(news_data) = Len(classified) - 1
        /\ \A m \in 1..Len(news_data) :
              /\ news_data[m].title = classified[m].title
              /\ news_data[m].date = classified[m].date
        /\ Last(classified).page = browser.page
        /\ Last(classified).row = index + 1
        /\ Len(listed) = browser.page
        /\ i = browser.page
        /\ pc \in {"after_page", "returned", "saved", "done", "raised"}
        /\ (pc = "saved" \/ pc = "done") => excel.rows = news_data

\* C1 witness: the second row of page 1 stops a crawl of two pages, and the
\* one record of page 1 is returned.
C1_Witness ==
    /\ pc = "returned"
    /\ result = "Break"
    /\ faults = 0
    /\ page_num = 3
    /\ browser.page = 1
    /\ Last(classified).row = 2
    /\ Len(news_data) = 1

\* C1 witness on the second page: the first row of page 2 stops the crawl
\* after both rows of page 1.
C1_WitnessSecondPage ==
    /\ pc = "returned"
    /\ result = "Break"
    /\ faults = 0
    /\ browser.page = 2
    /\ Len(news_data) = 2

\* C2: when the page count cannot be read, no exception leaves
\* extract_news_data and the result is empty.
C2_UnreadablePageCountGivesEmptyResult ==
    (i >= 1 /\ page_num = Unbound) =>
        /\ raised = "none"
        /\ news_data = << >>

\* C3: a failure while extracting a row skips that row only: when
\* extract_page_data ends without a STOP, every row of the page was either
\* extracted or was the row that failed.
C3_FailedRowAloneIsSkipped ==
    (pc = "after_page" /\ result # "Break") =>
        index + (IF status THEN 0 ELSE 1) >= articles

\* C4: no failure of the browser inside the paging loop leaves
\* extract_news_data.
C4_PagingFailureNeverEscapes == raised # "paging"

\* C5: a row whose date string matches no format is never classified
\* "Break", for every value of months: the row goes through the same steps
\* as a row in the window and, unless a later read fails, its record is
\* appended.
C5_UnparseableDateContinues ==
    article_date(date) = NoDate =>
        /\ result # "Break"
        /\ \A m \in 1..Len(classified) : classified[m].verdict = "Continue"
        /\ faults = 0 => pc \in {"check", "description", "image", "row"}
        /\ pc = "row" => (Len(news_data) = 1 /\ news_data[1].date = date)

\* C5 witness: an unparseable date, checked against a cutoff that could be
\* computed, and its record appended.
C5_Witness ==
    /\ article_date(date) = NoDate
    /\ cutoff_date(months, now) # NoDate
    /\ pc = "row"
    /\ Len(news_data) = 1

\* C6: whenever the image of a row could not be acquired, the record
\* appended for the row has the image "No image".
C6_FailedImageIsNoImage ==
    (pc = "row" /\ index > 0 /\ img # "ok") =>
        Last(news_data).image_filename = NoImage

\* C7: every row whose date was not classified out of window gets exactly
\* one record, whatever fails while its description or image is read.
C7_RowInWindowAlwaysGetsItsRecord ==
    Cardinality({m \in 1..Len(classified) : classified[m].verdict = "Continue"})
        = Len(news_data) + (IF pc \in {"description", "image"} THEN 1 ELSE 0)

\* The cutoff of the specification: midnight of the first day of the month
\* (current month - (months - 1)), of the current month for months = 0.
FirstDayOfCutoffMonth(m, dt) ==
    LET total == dt.year * 12 + (dt.month - 1) - (IF m > 0 THEN m - 1 ELSE 0)
    IN  DateTime(total \div 12, (total % 12) + 1, 1, 0)

\* C8: a parsed date is classified "Break" exactly when it is strictly
\* earlier than the first day of the cutoff month, whatever the time of day
\* of the crawl.
C8_BreakIffBeforeFirstDayOfCutoffMonth ==
    (pc # "check" /\ months.type = "int" /\ article_date(date) # NoDate) =>
        (result = "Break"
            <=> DtLess(article_date(date), FirstDayOfCutoffMonth(months.val, now)))

\* C9: every row of a run is classified against the cutoff the first row of
\* the run was classified against.
C9_OneCutoffPerCrawl == Cardinality(cutoffs) <= 1

C11_FilterFailureNeverAborts ==
    [][pc = "filter" => (pc' = "count" /\ raised' = "none")]_vars

\* C11 witness: a category was asked for, the filter could not be applied,
\* and the crawl is extracting the rows of a page.
C11_Witness ==
    /\ news_category.type = "str"
    /\ ~browser.filtered
    /\ pc = "check"
    /\ page_num > 1

\* The rows classified so far come in the order the site presents them:
\* each next one is the next row of the same page or the first row of a
\* later page.
ClassifiedAscending ==
    \A m \in 1..(Len(classified) - 1) :
        \/ /\ classified[m + 1].page = classified[m].page
           /\ classified[m + 1].row = classified[m].row + 1
        \/ /\ classified[m + 1].page > classified[m].page
           /\ classified[m + 1].row = 1

\* C12: every step leaves the result list unchanged or appends one record at
\* its end, the record of the row being extracted, which is the latest row
\* classified; rows are classified in presentation order; and a workbook
\* that was saved holds the header, then the records in the order of the
\* list.
C12_ResultIsAppendOnly ==
    /\ [][\/ news_data' = news_data
          \/ /\ Len(news_data') = Len(news_data) + 1
             /\ SubSeq(news_data', 1, Len(news_data)) = news_data
             /\ Last(news_data').title = title
             /\ Last(news_data').date = date
             /\ Last(news_data').description = description
             /\ Len(classified) > 0
             /\ Last(classified).page = browser.page
             /\ Last(classified).row = index + 1
             /\ Last(classified).date = date
             /\ classified' = classified]_vars
    /\ [](ClassifiedAscending)
    /\ [](excel.saved => (excel.header = header /\ excel.rows = news_data))

\* C12 witness: a run that ended with two different records, saved in the
\* order of the list.
C12_Witness ==
    /\ pc = "done"
    /\ Len(news_data) >= 2
    /\ news_data[1] # news_data[2]
    /\ excel.saved
    /\ excel.rows = news_data

\* C13: with a page count of N, the row handles of at most N - 1 pages are
\* listed, a page whose rows are being extracted is one of 1..N-1, and for
\* N = 1 no page is listed and the result stays empty.
C13_PagesOneToNMinusOne ==
    page_num # Unbound =>
        /\ Len(listed) <= (IF page_num >= 1 THEN page_num - 1 ELSE 0)
        /\ pc \in {"row", "check", "description", "image", "after_page"} =>
              /\ browser.page \in 1..(page_num - 1)
              /\ Len(listed) = browser.page
        /\ page_num = 1 => (listed = << >> /\ news_data = << >>)

\* C13 witness: a page count of 3, pages 1 and 2 extracted to their last row,
\* the browser on page 3, and the crawl over.
C13_Witness ==
    /\ pc = "returned"
    /\ page_num = 3
    /\ result = "None"
    /\ status
    /\ Len(listed) = 2
    /\ browser.page = 3
    /\ faults = 0

\* C13 witness for N = 1: the crawl is over with nothing extracted.
C13_WitnessOnePage ==
    /\ pc = "returned"
    /\ page_num = 1
    /\ news_data = << >>

\* The paging loop of extract_news_data was entered and is over.
LoopOver ==
    /\ page_num # Unbound
    /\ \/ pc \in {"returned", "saved", "done"}
       \/ pc = "raised" /\ raised \in {"paging", "excel"}

\* C14: a STOP comes from the date step only, and the paging loop ends
\* before its page bound only on a STOP: when the loop is over with pages of
\* its range left, the latest row classified was out of window and the page
\* returned "Break"; a page that failed is followed by the next page.
C14_OnlyTheDateStepStops ==
    /\ result = "Break" =>
          (Len(classified) > 0 /\ Last(classified).verdict = "Break")
    /\ (LoopOver /\ i < page_num) => result = "Break"
    /\ (LoopOver /\ ~status /\ result = "None") => i >= page_num

\* extract_news_data returned its list: after a STOP or with its pages
\* exhausted.
Stopped == result = "Break" /\ i < page_num
Exhausted == result # "Break" /\ i >= page_num

\* C15: a crawl that was started after a successful search ends in no other
\* way than by returning its list, stopped or exhausted, after at most
\* pageCount - 1 page iterations: no run ends on an exception raised between
\* the search and the return of extract_news_data.  (Every behaviour of the
\* crawl is finite, so "eventually reaches a terminal state" fails exactly
\* when the run ends somewhere else.)
C15_CrawlEndsStoppedOrExhausted ==
    /\ (pc = "raised" /\ browser.page >= 1) => raised = "excel"
    /\ (pc \in {"returned", "saved", "done"} \/ raised = "excel") =>
          /\ Stopped \/ Exhausted
          /\ Len(listed) <= (IF page_num >= 1 THEN page_num - 1 ELSE 0)

\* Two characters that are the same but for their case
SameLetter(a, b) ==
    \/ a = b
    \/ \E k \in 1..Len(UpperCase) : {a, b} = {UpperCase[k], LowerCase[k]}

\* The positions of text where phrase occurs, whatever the case
OccurrencesIn(text, phrase) ==
    { p \in 1..(Len(text) + 1) :
        /\ p + Len(phrase) - 1 <= Len(text)
        /\ \A k \in 1..Len(phrase) : SameLetter(text[p + k - 1], phrase[k]) }

\* The greatest number of occurrences of phrase in text no two of which
\* overlap
NonOverlapping(text, phrase) ==
    LET disjoint == { P \in SUBSET OccurrencesIn(text, phrase) :
                        \A p, q \in P : p < q => p + Len(phrase) <= q }
    IN  CHOOSE n \in 0..(Len(text) + 1) :
            /\ \E P \in disjoint : Cardinality(P) = n
            /\ \A P \in disjoint : Cardinality(P) <= n

\* C16: the search count of a record is the number of case-insensitive,
\* non-overlapping occurrences of the phrase in the title plus that number
\* in the description, each text counted on its own.
C16_CountsOccurrencesPerField ==
    (pc = "row" /\ index = 1) =>
        Last(news_data).search_count =
            NonOverlapping(title, search_phrase.val)
                + NonOverlapping(description, search_phrase.val)

\* C16 witness: ("Nasdaq rises", "Stocks on Nasdaq gain", "nasdaq") gives 2.
C16_Witness ==
    /\ pc = "row"
    /\ title = NasdaqRises
    /\ description = StocksOnNasdaqGain
    /\ search_phrase = PyStr(<<"n", "a", "s", "d", "a", "q">>)
    /\ Last(news_data).search_count = 2

\* C16 witness at the boundary: "ab" then "ba" holds no "bb".
C16_WitnessBoundary ==
    /\ pc = "row"
    /\ title = <<"a", "b">>
    /\ description = <<"b", "a">>
    /\ search_phrase = PyStr(<<"b", "b">>)
    /\ Last(news_data).search_count = 0

\* C16 witness without overlap: "aAa" holds "aa" once, "$5 aaaa" twice.
C16_WitnessOverlap ==
    /\ pc = "row"
    /\ title = <<"a", "A", "a">>
    /\ description = <<"$", "5", " ", "a", "a", "a", "a">>
    /\ search_phrase = PyStr(<<"a", "a">>)
    /\ Last(news_data).search_count = 3

Whitespace == {" ", "\t", "\n"}

\* The first whitespace-delimited token of s, empty when s has none
FirstToken(s) ==
    LET starts == { p \in 1..Len(s) : s[p] \notin Whitespace }
    IN  IF starts = {} THEN << >>
        ELSE LET from == CHOOSE p \in starts : \A q \in starts : p <= q
                 stops == { p \in from..Len(s) : s[p] \in Whitespace }
                 to == IF stops = {} THEN Len(s)
                       ELSE (CHOOSE p \in stops : \A q \in stops : p <= q) - 1
             IN  SubSeq(s, from, to)

EndsWith(s, suffix) ==
    /\ Len(s) >= Len(suffix)
    /\ SubSeq(s, Len(s) - Len(suffix) + 1, Len(s)) = suffix

\* The name with ".jpg" appended when it does not end in it
JpgName(name) == IF EndsWith(name, DotJpg) THEN name ELSE name \o DotJpg

\* C17: for every srcset string read for a row, the file name of the record
\* is derived from the first whitespace-delimited token of the first
\* comma-separated candidate, and after a successful download it ends in
\* ".jpg".
C17_FirstTokenAndJpgSuffix ==
    (pc = "row" /\ index = 1 /\ srcset.type = "str") =>
        /\ Last(news_data).image_filename =
              output_img_path
                  \o JpgName(SplitLast(FirstToken(SplitFirst(srcset.val, ",")), "%"))
        /\ img = "ok" => EndsWith(Last(news_data).image_filename, DotJpg)

\* The last n records of the result are the records of rows 1..n of the
\* page the browser is on.
RowsOfThisPageKept(n) ==
    /\ Len(news_data) >= n
    /\ \A r \in 1..n :
          \E m \in 1..Len(classified) :
              /\ classified[m].page = browser.page
              /\ classified[m].row = r
              /\ news_data[Len(news_data) - n + r].title = classified[m].title
              /\ news_data[Len(news_data) - n + r].date = classified[m].date

\* C18: when the extraction of a page has failed at row k = index + 1, the
\* records of its rows 1..k-1 are in the result, and the next step leaves
\* the result as it is and takes the browser to the next page, where the
\* loop goes on.
C18_FailedPageKeepsItsRecordsAndIsFollowed ==
    [][(pc = "after_page" /\ ~status) =>
            /\ RowsOfThisPageKept(index)
            /\ news_data' = news_data
            /\ browser'.page = browser.page + 1
            /\ pc' = "loop"]_vars

\* The latest row classified is the row being extracted.
ClassifiedThisRow ==
    /\ Len(classified) > 0
    /\ Last(classified).page = browser.page
    /\ Last(classified).row = index + 1

\* C19: the description is read, the image acquired and the record appended
\* only for the row that was just classified in the window; once a row was
\* classified out of window its image was not touched, and from then on no
\* row is read or classified, no image is acquired and no record is
\* appended.
C19_DateCheckPrecedesSideEffects ==
    /\ [](pc \in {"description", "image"} =>
              (ClassifiedThisRow /\ Last(classified).verdict = "Continue"))
    /\ [](result = "Break" =>
              /\ ClassifiedThisRow
              /\ Last(classified).verdict = "Break"
              /\ img = "none"
              /\ srcset = NoneStr
              /\ pc \in {"after_page", "returned", "saved", "done", "raised"})
    /\ [][(news_data' # news_data \/ img' \notin {img, "none"}) =>
              /\ pc = "image"
              /\ ClassifiedThisRow
              /\ Last(classified).verdict = "Continue"]_vars
    /\ [][result = "Break" =>
              /\ result' = "Break"
              /\ news_data' = news_data
              /\ classified' = classified
              /\ listed' = listed
              /\ <<index, description, image_filename, srcset, img>>'
                    = <<index, description, image_filename, srcset, img>>]_vars

\* C19 witness: the first of the two rows of page 2 was out of window; the
\* crawl returned the records of page 1 and the second row was never read.
C19_Witness ==
    /\ pc = "returned"
    /\ result = "Break"
    /\ browser.page = 2
    /\ articles = 2
    /\ index = 0
    /\ img = "none"
    /\ Len(news_data) = listed[1]

====
